---- MODULE Spec2Model ----
(***************************************************************************)
(* aerosort: a stable, in-place merge sort with an optional external       *)
(* buffer.  Memory is modelled as one address space `mem': addresses       *)
(* 0..n-1 hold the slice v, addresses n..n+|ext|-1 hold the external       *)
(* buffer.  An element is a pair <<key, id>>: the comparator looks at the  *)
(* key only, the id is the element's input index (1..n), so that equal     *)
(* elements stay distinguishable.                                          *)
(***************************************************************************)
EXTENDS Integers, Sequences, FiniteSets, TLC

(***************************************************************************)
(* Program constants                                                       *)
(***************************************************************************)
SmallLimit == 64
RunDivisor == 16
LazyLimit == 12

(***************************************************************************)
(* Bounds of the model                                                     *)
(***************************************************************************)
MaxLen == 111
MaxMul == 2
MaxRun == 3
MaxSched == 300
MaxSizing == 160

(***************************************************************************)
(* The comparator: `less' of sort_general, a strict weak order on keys.    *)
(***************************************************************************)
less(x, y) == x[1] < y[1]

Max(a, b) == IF a >= b THEN a ELSE b
Min(a, b) == IF a <= b THEN a ELSE b
B2N(b) == IF b THEN 1 ELSE 0

\* evaluate e once and apply F to its value (a strict `let')
Let(e, F(_)) == CHOOSE y \in {F(x) : x \in {e}} : TRUE

RECURSIVE Pow2(_)
Pow2(e) == IF e = 0 THEN 1 ELSE 2 * Pow2(e - 1)

RECURSIVE Log2From(_, _)
Log2From(x, e) == IF Pow2(e) >= x THEN e ELSE Log2From(x, e + 1)
\* sort_util::op::log2_ceil: the least e with 2^e >= x
log2_ceil(x) == Log2From(x, 0)

RECURSIVE trailing_zeros(_)
trailing_zeros(i) == IF i % 2 = 1 THEN 0 ELSE 1 + trailing_zeros(i \div 2)

(***************************************************************************)
(* Raw memory operations (core::ptr and sort_util::op)                     *)
(***************************************************************************)
\* ptr::swap
ptr_swap(m0, p, q) ==
    IF p = q THEN m0
    ELSE Let(m0, LAMBDA mem : [mem EXCEPT ![p] = mem[q], ![q] = mem[p]])

\* ptr::swap_nonoverlapping(p, q, cnt)
swap_nonoverlapping(m0, p, q, cnt) ==
    IF cnt = 0 THEN m0
    ELSE Let(m0, LAMBDA mem :
            IF cnt = 1 THEN [mem EXCEPT ![p] = mem[q], ![q] = mem[p]]
            ELSE [x \in DOMAIN mem |->
                    IF x >= p /\ x < p + cnt THEN mem[x - p + q]
                    ELSE IF x >= q /\ x < q + cnt THEN mem[x - q + p]
                    ELSE mem[x]])

\* ptr::copy_nonoverlapping(src, dst, cnt)
copy_nonoverlapping(m0, src, dst, cnt) ==
    IF cnt = 0 THEN m0
    ELSE Let(m0, LAMBDA mem :
            IF cnt = 1 THEN [mem EXCEPT ![dst] = mem[src]]
            ELSE [x \in DOMAIN mem |->
                    IF x >= dst /\ x < dst + cnt THEN mem[x - dst + src]
                    ELSE mem[x]])

\* sort_util::op::write::<_, S>(src, dst, cnt): swap when S, copy otherwise
write(mem, src, dst, cnt, S) ==
    IF S THEN swap_nonoverlapping(mem, src, dst, cnt)
    ELSE copy_nonoverlapping(mem, src, dst, cnt)

\* sort_util::op::rotate(s, n, k): rotate s[0..n) left by k
rotate(m0, s, n, k) ==
    IF n = 0 \/ k = 0 \/ k = n THEN m0
    ELSE Let(m0, LAMBDA mem :
            [x \in DOMAIN mem |->
                IF x >= s /\ x < s + n THEN mem[s + ((x - s + k) % n)]
                ELSE mem[x]])

(***************************************************************************)
(* Loops.  While(Cond, Step, st) is `while Cond(st) { st = Step(st) }'.    *)
(* Iterate runs at most cnt iterations; it splits cnt in halves so that    *)
(* the evaluation depth stays logarithmic in the number of iterations.     *)
(***************************************************************************)
RECURSIVE Iterate(_, _, _, _)
Iterate(Cond(_), Step(_), st, cnt) ==
    IF cnt = 0 \/ ~Cond(st) THEN st
    ELSE IF cnt = 1 THEN Step(st)
    ELSE Let(Iterate(Cond, Step, st, cnt \div 2),
             LAMBDA h : Iterate(Cond, Step, h, cnt - cnt \div 2))

RECURSIVE WhileFrom(_, _, _, _)
WhileFrom(Cond(_), Step(_), st, cnt) ==
    Let(Iterate(Cond, Step, st, cnt),
        LAMBDA r : IF Cond(r) THEN WhileFrom(Cond, Step, r, 2 * cnt) ELSE r)

While(Cond(_), Step(_), st) ==
    Let(st, LAMBDA st0 : WhileFrom(Cond, Step, st0, 8))

(***************************************************************************)
(* mini.rs: guarded insertion sort                                         *)
(***************************************************************************)
\* Slot::drop: the held element goes back into the slot
SlotDropSkip(mem, s, held, pos) == mem
SlotDrop(mem, s, held, pos) == [mem EXCEPT ![s + pos] = held]

\* one iteration of the inner while loop: slot.2 -= 1; copy s[slot.2] up
SlotShift(mem, s, pos) == [mem EXCEPT ![s + pos] = mem[s + pos - 1]]

\* the guard of the inner while loop
SlotCondLe(mem, s, held, pos) == pos # 0 /\ ~less(mem[s + pos - 1], held)
SlotCond(mem, s, held, pos) == pos # 0 /\ less(held, mem[s + pos - 1])

\* one iteration of `for i in 1..n': lift s[i], shift, drop the slot
SlotLoop(mem, s, held, pos) ==
    LET C(st) == SlotCond(st.mem, s, held, st.pos)
        S(st) == [mem |-> SlotShift(st.mem, s, st.pos), pos |-> st.pos - 1]
    IN Let(While(C, S, [mem |-> mem, pos |-> pos]),
           LAMBDA r : SlotDrop(r.mem, s, held, r.pos))

insertion_sort_safe(mem, s, n) ==
    LET C(st) == st.i < n
        S(st) == [mem |-> SlotLoop(st.mem, s, st.mem[s + st.i], st.i),
                  i |-> st.i + 1]
    IN While(C, S, [mem |-> mem, i |-> 1]).mem

(***************************************************************************)
(* merge.rs: buffered merges                                               *)
(***************************************************************************)
\* sort_util::op::move_slice::<_, S>(dst, src): src[0..n) goes to dst
move_slice(mem, dst, src, n, S) == write(mem, src, dst, n, S)

\* merge_up, one iteration of the loop; g = [mem, i, j, n] with i = gap.3,
\* j = gap.4, n = gap.1
GapUpStep(g, a, b, S) ==
    LET l == a + g.i
        r == b + g.j
        right == less(g.mem[r], g.mem[l])
        i2 == g.i + B2N(~right)
        j2 == g.j + B2N(right)
        dst == b - g.n
    IN [mem |-> write(g.mem, IF right THEN r ELSE l, dst + i2 + j2 - 1, 1, S),
        i |-> i2, j |-> j2, n |-> g.n]

\* Gap::drop of merge_up: the unwritten part of a goes into the gap
GapUpDropSkip(g, a, b, S) == g.mem
GapUpDrop(g, a, b, S) ==
    write(g.mem, a + g.i, (b - g.n) + g.i + g.j, g.n - g.i, S)

\* merge_up::<_, S>([a, b]): a (length n) lives in a buffer, b (length m) in v
\* the test of the loop of merge_up
GapUpCond(g, m) == g.i # g.n /\ g.j # m

merge_up(mem, a, n, b, m, S) ==
    LET C(g) == GapUpCond(g, m)
        St(g) == GapUpStep(g, a, b, S)
    IN Let(While(C, St, [mem |-> mem, i |-> 0, j |-> 0, n |-> n]),
           LAMBDA g : GapUpDrop(g, a, b, S))

\* merge_down, one iteration; g = [mem, n, m] with n = gap.2, m = gap.3
GapDownStep(g, a, b, S) ==
    LET l == a + g.n - 1
        r == b + g.m - 1
        left == less(g.mem[r], g.mem[l])
        n2 == g.n - B2N(left)
        m2 == g.m - B2N(~left)
    IN [mem |-> write(g.mem, IF left THEN l ELSE r, a + n2 + m2, 1, S),
        n |-> n2, m |-> m2]

\* Gap::drop of merge_down: the unwritten part of b goes into the gap
GapDownDropSkip(g, a, b, S) == g.mem
GapDownDrop(g, a, b, S) == write(g.mem, b, a + g.n, g.m, S)

\* merge_down::<_, S>([a, b]): a (length n) lives in v, b (length m) in a buffer
\* the test of the loop of merge_down
GapDownCond(g) == g.n # 0 /\ g.m # 0

merge_down(mem, a, n, b, m, S) ==
    LET C(g) == GapDownCond(g)
        St(g) == GapDownStep(g, a, b, S)
    IN Let(While(C, St, [mem |-> mem, n |-> n, m |-> m]),
           LAMBDA g : GapDownDrop(g, a, b, S))

\* <[T] as Merge>::can_merge
ext_can_mergeAnd(xlen, n, m) == xlen >= n /\ xlen >= m
ext_can_merge(xlen, n, m) == xlen >= n \/ xlen >= m

\* <[T] as MergeUnchecked>::merge_unchecked; x is the address of ext
ext_merge_unchecked(mem, x, a, n, b, m) ==
    IF n <= m
    THEN merge_up(move_slice(mem, x, a, n, FALSE), x, n, b, m, FALSE)
    ELSE merge_down(move_slice(mem, x, b, m, FALSE), a, n, x, m, FALSE)

(***************************************************************************)
(* merge.rs: rotation merges                                               *)
(***************************************************************************)
\* the comparator as passed down: `less', or the closure |x, y| !less(y, x)
lt(inv, x, y) == IF inv THEN ~less(y, x) ELSE less(x, y)

\* sort_util::op::lower_bound::binary(n, f): the least i of 0..n with ~f(i),
\* found by bisection (n when there is none)
lower_bound_binary(n, F(_)) ==
    LET C(st) == st.lo < st.hi
        St(st) == LET mid == st.lo + (st.hi - st.lo) \div 2
                  IN IF F(mid) THEN [lo |-> mid + 1, hi |-> st.hi]
                     ELSE [lo |-> st.lo, hi |-> mid]
    IN While(C, St, [lo |-> 0, hi |-> n]).lo

\* sort_util::op::search::binary(s, n, key, f): the number of leading
\* elements x of s[0..n) with f(x, key); mem and key are values
search_binary(mem, s, n, key, inv) ==
    lower_bound_binary(n, LAMBDA p : lt(inv, mem[s + p], key))

\* merge_left([a, b]): a at address a with length n, b right after it
merge_left(mem, a, n, m, inv) ==
    LET C(st) == st.m # 0 /\ ~st.brk
        Rest(st, len, mem2) ==
            IF st.n - len = 0
            THEN [mem |-> mem2, n |-> 0, m |-> st.m, brk |-> TRUE]
            ELSE [mem |-> mem2, n |-> st.n - len,
                  m |-> search_binary(mem2, a + (st.n - len), st.m,
                                      mem2[a + (st.n - len) - 1], inv),
                  brk |-> FALSE]
        St(st) ==
            Let(st.n - search_binary(st.mem, a, st.n,
                                     st.mem[a + st.n + st.m - 1], ~inv),
                LAMBDA len :
                    Let(rotate(st.mem, a + st.n - len, len + st.m, len),
                        LAMBDA mem2 : Rest(st, len, mem2)))
    IN While(C, St, [mem |-> mem, n |-> n, m |-> m, brk |-> FALSE]).mem

\* merge_right([a, b]): returns the memory and the lengths of the two tails
merge_right(mem, a, n, m, inv) ==
    LET r == a + n + m
        C(st) == st.n # 0 /\ ~st.brk
        Rest(st, index, mem2) ==
            IF st.m - index = 0
            THEN [mem |-> mem2, n |-> st.n, m |-> 0, brk |-> TRUE]
            ELSE [mem |-> mem2,
                  n |-> st.n - search_binary(mem2, r - ((st.m - index) + st.n),
                                             st.n, mem2[r - (st.m - index)], ~inv),
                  m |-> st.m - index, brk |-> FALSE]
        St(st) ==
            Let(search_binary(st.mem, r - st.m, st.m,
                              st.mem[r - (st.m + st.n)], inv),
                LAMBDA index :
                    Let(rotate(st.mem, r - (st.m + st.n), st.n + index, st.n),
                        LAMBDA mem2 : Rest(st, index, mem2)))
    IN While(C, St, [mem |-> mem, n |-> n, m |-> m, brk |-> FALSE])

merge_in_place(mem, a, n, m) ==
    IF n <= m THEN merge_right(mem, a, n, m, FALSE).mem
    ELSE merge_left(mem, a, n, m, FALSE)

(***************************************************************************)
(* mini.rs: heap sort                                                      *)
(***************************************************************************)
\* sift_down(v, root) with v = s[0..n); the loop stops at either `return'
sift_down(mem, s, n, root) ==
    LET Child(st) ==
            IF 2 * st.root + 2 < n
            THEN 2 * st.root + 1 + B2N(less(st.mem[s + 2 * st.root + 1],
                                            st.mem[s + 2 * st.root + 2]))
            ELSE 2 * st.root + 1
        C(st) == ~st.ret
        St(st) ==
            IF 2 * st.root + 1 >= n THEN [st EXCEPT !.ret = TRUE]
            ELSE Let(Child(st), LAMBDA child :
                    IF ~less(st.mem[s + st.root], st.mem[s + child])
                    THEN [st EXCEPT !.ret = TRUE]
                    ELSE [mem |-> ptr_swap(st.mem, s + child, s + st.root),
                          root |-> child, ret |-> FALSE])
    IN While(C, St, [mem |-> mem, root |-> root, ret |-> FALSE]).mem

heap_sort(mem, s, n) ==
    LET C1(st) == st.i >= 0
        S1(st) == [mem |-> sift_down(st.mem, s, n, st.i), i |-> st.i - 1]
        C2(st) == st.i >= 1
        S2(st) == [mem |-> sift_down(ptr_swap(st.mem, s, s + st.i), s, st.i, 0),
                   i |-> st.i - 1]
    IN While(C2, S2, [mem |-> While(C1, S1, [mem |-> mem, i |-> n \div 2 - 1]).mem,
                      i |-> n - 1]).mem

(***************************************************************************)
(* state.rs: key collection                                                *)
(***************************************************************************)
\* sort_util::op::search_unique(s, n, key, less): Found(found, index), the
\* insertion index of key in the sorted s[0..n) and whether s holds an equal
search_unique(mem, s, n, key) ==
    Let(search_binary(mem, s, n, key, FALSE),
        LAMBDA index : [found |-> index < n /\ ~less(key, mem[s + index]),
                        index |-> index])

\* sort_util::op::insert_left(p, count): the element at p moves left by count
insert_left(m0, p, count) ==
    IF count = 0 THEN m0
    ELSE Let(m0, LAMBDA mem :
            [x \in DOMAIN mem |->
                IF x = p - count THEN mem[p]
                ELSE IF x > p - count /\ x <= p THEN mem[x - 1]
                ELSE mem[x]])

\* LeftCollectState::insert; st = [mem, location, keys]
collect_insert(st, key) ==
    Let(search_unique(st.mem, st.location, st.keys, st.mem[key]), LAMBDA f :
        IF f.found THEN st
        ELSE LET shift == (key - st.location) - st.keys
             IN [mem |-> insert_left(rotate(st.mem, st.location,
                                            st.keys + shift, st.keys),
                                     key, st.keys - f.index),
                 location |-> st.location + shift,
                 keys |-> st.keys + 1])

\* LeftCollectState::scan(v, limit) with v = s[0..len)
collect_scan(st0, s, len, limit) ==
    LET C(st) == st.i < len /\ ~st.brk
        St(st) ==
            Let(collect_insert([mem |-> st.mem, location |-> st.location,
                                keys |-> st.keys], s + st.i),
                LAMBDA st2 : [mem |-> st2.mem, location |-> st2.location,
                              keys |-> st2.keys, i |-> st.i + 1,
                              brk |-> st2.keys = limit])
    IN While(C, St, [mem |-> st0.mem, location |-> st0.location,
                     keys |-> st0.keys, i |-> 0, brk |-> FALSE])

\* the key limit of collect_keys: k = (2 * n).isqrt()
KeyLimitCeil(n) == lower_bound_binary(n, LAMBDA p : p * p < 2 * n)
KeyLimit(n) ==
    Let(lower_bound_binary(n, LAMBDA p : p * p < 2 * n),
        LAMBDA k : k - B2N(k * k # 2 * n))

\* the closure |len| len < (n - k) / 2 / (k - len) of collect_keys
TagsTooFew(n, k, len) == len < ((n - k) \div 2) \div (k - len)

\* the buffer length chosen by collect_keys for n elements and k keys
BufferLenBound(n, k) ==
    lower_bound_binary(k \div 2, LAMBDA len : TagsTooFew(n, k, len))
BufferLen(n, k) ==
    k - lower_bound_binary(k \div 2, LAMBDA len : TagsTooFew(n, k, len))

\* LeftCollectState::into_union_state(v, buffer_len): the keys go to v[0..keys)
into_union_state(st, buffer_len) ==
    [mem |-> rotate(st.mem, 0, st.location + st.keys, st.location),
     keys |-> st.keys,
     buffer_len |-> buffer_len]

\* collect_keys(v): the keys end up in v[0..keys)
collect_keys(mem, n) ==
    Let(collect_scan([mem |-> mem, location |-> 0, keys |-> 1],
                     1, n - 1, KeyLimit(n)),
        LAMBDA st : into_union_state(st, BufferLen(n, st.keys)))

(***************************************************************************)
(* keys.rs                                                                 *)
(***************************************************************************)
\* Keys::new(inner, buffer_len) with inner = v[0..len)
Keys_new(len, buffer_len) ==
    LET keys_len == len - buffer_len
    IN [len |-> len, buffer_len |-> buffer_len, tags_len |-> keys_len,
        unsortable_left_len |-> (keys_len + 1) * buffer_len]

can_scrolling_block_merge(K, n) == n < K.unsortable_left_len

\* Keys::sort_first(len)
sort_first(mem, K, len) ==
    heap_sort(mem, K.tags_len, Max(len, K.tags_len) - K.tags_len)

sort_internal_buffer(mem, K) == sort_first(mem, K, K.len)

\* the guard of Keys::merge_basic
basic_can_mergeLe(K, n, m) == ~(K.buffer_len <= Min(n, m))
basic_can_merge(K, n, m) == ~(K.buffer_len < Min(n, m))

\* Keys::merge_basic after its guard; the buffer starts at address tags_len
merge_basicAtTags(mem, K, a, n, b, m) ==
    IF n = Min(n, m)
    THEN merge_up(move_slice(mem, 0, a, n, TRUE), 0, n, b, m, TRUE)
    ELSE merge_down(move_slice(mem, 0, b, m, TRUE), a, n, 0, m, TRUE)
merge_basic(mem, K, a, n, b, m) ==
    IF n = Min(n, m)
    THEN merge_up(move_slice(mem, K.tags_len, a, n, TRUE), K.tags_len, n, b, m, TRUE)
    ELSE merge_down(move_slice(mem, K.tags_len, b, m, TRUE), a, n, K.tags_len, m, TRUE)

(***************************************************************************)
(* internal.rs: merges around the scrolling buffer                         *)
(***************************************************************************)
BlockA == TRUE
BlockB == FALSE

\* scroll_right(s, n, count): the memory afterwards (the result pointer is s + n)
scroll_right(mem, s, n, count) ==
    LET end == n * B2N(count # 0)
        C(st) == st.i < end
        St(st) == [mem |-> ptr_swap(st.mem, s + st.i, s + st.i + count),
                   i |-> st.i + 1]
    IN While(C, St, [mem |-> mem, i |-> 0]).mem

\* scroll_left(s, n, count): the memory afterwards (the result pointer is s - n)
scroll_left(mem, s, n, count) ==
    LET end == n * B2N(count # 0)
        C(st) == st.i <= end
        St(st) == [mem |-> ptr_swap(st.mem, s - st.i + count, s - st.i),
                   i |-> st.i + 1]
    IN While(C, St, [mem |-> mem, i |-> 1]).mem

\* the swapping merge loop of local_merge_up (and of the tail of
\* scrolling_block_merge): returns the memory and the two cursors
local_merge_upPlain(mem, a, n, b, m, dst, inv) ==
    LET C(st) == st.i # n /\ st.j # m
        St(st) ==
            LET right == less(st.mem[b + st.j], st.mem[a + st.i])
                i2 == st.i + B2N(~right)
                j2 == st.j + B2N(right)
            IN [mem |-> ptr_swap(st.mem, IF right THEN b + st.j ELSE a + st.i,
                                 dst + i2 + j2 - 1),
                i |-> i2, j |-> j2]
    IN While(C, St, [mem |-> mem, i |-> 0, j |-> 0])
local_merge_up(mem, a, n, b, m, dst, inv) ==
    LET C(st) == st.i # n /\ st.j # m
        St(st) ==
            LET right == lt(inv, st.mem[b + st.j], st.mem[a + st.i])
                i2 == st.i + B2N(~right)
                j2 == st.j + B2N(right)
            IN [mem |-> ptr_swap(st.mem, IF right THEN b + st.j ELSE a + st.i,
                                 dst + i2 + j2 - 1),
                i |-> i2, j |-> j2]
    IN While(C, St, [mem |-> mem, i |-> 0, j |-> 0])

\* internal::merge_up(s, excess, id, epb): the new memory, s, excess and id
internal_merge_up(mem, s, excess, id, epb) ==
    LET a == s + epb
        n == excess
        b == s + epb + excess
        m == epb
    IN Let(local_merge_up(mem, a, n, b, m, s, id # BlockA), LAMBDA lm :
           LET l == n - lm.i
               r == m - lm.j
               ex == Max(l, r)
           IN [mem |-> scroll_left(lm.mem, b, l, epb),
               buf |-> b - ex,
               excess |-> ex,
               pid |-> IF l = 0 THEN ~id ELSE id])

\* internal::merge_right(a, b, id): a = (prev, plen), b = (prev + plen, m)
internal_merge_right(mem, prev, plen, m, id) ==
    Let(merge_right(mem, prev, plen, m, id # BlockA), LAMBDA mr :
        LET b == prev + plen
            ex == Max(mr.n, mr.m)
        IN [mem |-> mr.mem,
            prev |-> b + m - ex,
            plen |-> ex,
            pid |-> IF mr.n = 0 THEN ~id ELSE id])

(***************************************************************************)
(* blocks.rs: the drop loop shared by both block merges.                   *)
(* ctx = [s, tags, na, nb, epb, scrolling]; ms = MergeState plus the       *)
(* variables captured by the on_drop closure (buf, excess / prev, plen).   *)
(***************************************************************************)
\* on_drop of scrolling_block_merge
on_drop_scrollingAlways(ms, ctx, id) ==
    IF id = ms.pid
    THEN LET n == ms.excess
         IN [ms EXCEPT !.mem = scroll_right(ms.mem, ms.buf, n, ctx.epb),
                       !.buf = ms.buf + n,
                       !.excess = ctx.epb]
    ELSE Let(internal_merge_up(ms.mem, ms.buf, ms.excess, ms.pid, ctx.epb),
             LAMBDA r : [ms EXCEPT !.mem = r.mem, !.buf = r.buf,
                                   !.excess = r.excess, !.pid = r.pid])
on_drop_scrolling(ms, ctx, id) ==
    IF id = ms.pid
    THEN LET n == B2N(ms.pid = BlockB \/ ms.cnt_b # 0) * ms.excess
         IN [ms EXCEPT !.mem = scroll_right(ms.mem, ms.buf, n, ctx.epb),
                       !.buf = ms.buf + n,
                       !.excess = ctx.epb]
    ELSE Let(internal_merge_up(ms.mem, ms.buf, ms.excess, ms.pid, ctx.epb),
             LAMBDA r : [ms EXCEPT !.mem = r.mem, !.buf = r.buf,
                                   !.excess = r.excess, !.pid = r.pid])

\* on_drop of in_place_block_merge
on_drop_in_place(ms, ctx, id) ==
    LET next == ms.prev + ms.plen IN
    IF id = ms.pid
    THEN [ms EXCEPT !.prev = next, !.plen = ctx.epb]
    ELSE Let(internal_merge_right(ms.mem, ms.prev, ms.plen, ctx.epb, ms.pid),
             LAMBDA r : [ms EXCEPT !.mem = r.mem, !.prev = r.prev,
                                   !.plen = r.plen, !.pid = r.pid])

\* the choice made by drop_once: TRUE drops the minimum A-block
drop_choiceStrict(ms, ctx) ==
    ms.cnt_b = 0 \/
    (ms.cnt_a # 0 /\ less(ms.mem[ctx.s + ms.ai * ctx.epb],
                          ms.mem[ctx.s + (ms.i + ms.cnt_a) * ctx.epb]))
drop_choice(ms, ctx) ==
    ms.cnt_b = 0 \/
    (ms.cnt_a # 0 /\ ~less(ms.mem[ctx.s + (ms.i + ms.cnt_a) * ctx.epb],
                           ms.mem[ctx.s + ms.ai * ctx.epb]))

\* MergeState::drop_once up to the call of on_drop: the block and its tag are
\* swapped into place and the counters updated; `id' holds the chosen id
drop_swap(ms, ctx, id) ==
    LET bi == ms.i + ms.cnt_a
        src == IF id = BlockA THEN ms.ai ELSE bi
        step_a == B2N(id)
        dst == ctx.s + ms.i * ctx.epb
    IN [ms EXCEPT
            !.mem = swap_nonoverlapping(
                        swap_nonoverlapping(ms.mem, dst, ctx.s + src * ctx.epb,
                                            B2N(src # ms.i) * ctx.epb),
                        ctx.tags + (ctx.na - ms.cnt_a), dst + step_a, step_a),
            !.cnt_a = ms.cnt_a - step_a,
            !.cnt_b = ms.cnt_b + step_a - 1,
            !.id = id]

\* MergeState::drop_once: the state afterwards; `id' holds the returned id
drop_once(ms, ctx) ==
    Let(drop_choice(ms, ctx), LAMBDA id :
        Let(drop_swap(ms, ctx, id),
            LAMBDA ms2 : IF ctx.scrolling THEN on_drop_scrolling(ms2, ctx, id)
                         ELSE on_drop_in_place(ms2, ctx, id)))

\* the closure min_block of merge_on: the block of start..start+count with
\* the least tag (second slot), the leftmost one on ties
min_blockLast(mem, ctx, start, count) ==
    LET C(st) == st.i < start + count
        St(st) == [res |-> IF less(mem[ctx.s + st.res * ctx.epb + 1],
                                   mem[ctx.s + st.i * ctx.epb + 1])
                           THEN st.i ELSE st.res,
                   i |-> st.i + 1]
    IN While(C, St, [res |-> start, i |-> start + 1]).res
min_block(mem, ctx, start, count) ==
    LET C(st) == st.i < start + count
        St(st) == [res |-> IF less(mem[ctx.s + st.i * ctx.epb + 1],
                                   mem[ctx.s + st.res * ctx.epb + 1])
                           THEN st.i ELSE st.res,
                   i |-> st.i + 1]
    IN While(C, St, [res |-> start, i |-> start + 1]).res

\* init_min of the two variants
init_min(ctx, dropped) == IF ctx.scrolling THEN ctx.na ELSE dropped

\* the loop condition of select_while in the three phases of merge_on
select_cond(ms, ctx, phase, end) ==
    /\ CASE phase = 1 -> ctx.nb = ms.cnt_b
         [] phase = 2 -> ms.i < ctx.na
         [] OTHER -> ms.i < end
    /\ (ms.pid \/ ms.cnt_a # 0)

\* the body of select_while: drop one block, then recompute ai and i
select_step(ms, ctx, phase) ==
    Let(drop_once(ms, ctx), LAMBDA d :
        LET bi == ms.i + ms.cnt_a
            min == CASE phase = 1 -> init_min(ctx, d.i + 1)
                     [] phase = 2 -> min_block(d.mem, ctx, ctx.na,
                                               d.cnt_a + d.i + 1 - ctx.na)
                     [] OTHER -> min_block(d.mem, ctx, d.i + 1, d.cnt_a)
        IN [d EXCEPT !.ai = IF d.id = BlockA THEN min
                            ELSE IF ms.ai = ms.i THEN bi ELSE ms.ai,
                     !.i = d.i + 1])

select_while(ms0, ctx, phase, end) ==
    LET C(ms) == select_cond(ms, ctx, phase, end)
        St(ms) == select_step(ms, ctx, phase)
    IN While(C, St, ms0)

\* the MergeState built by MergeContext::merge_on, with i and ai set by the
\* first lines of MergeState::merge_on
merge_start(mem, ctx, start, cl) ==
    [mem |-> mem, pid |-> TRUE, i |-> start,
     cnt_a |-> ctx.na, cnt_b |-> ctx.nb,
     ai |-> init_min(ctx, start), id |-> TRUE,
     buf |-> cl.buf, excess |-> cl.excess,
     prev |-> cl.prev, plen |-> cl.plen]

\* MergeContext::merge_on(range) and MergeState::merge_on(range)
merge_on(mem, ctx, start, end, cl) ==
    select_while(
        select_while(
            select_while(merge_start(mem, ctx, start, cl), ctx, 1, end),
            ctx, 2, end),
        ctx, 3, end)

\* the tagging loop: (0..na).for_each(|i| swap(tags + i, s + i * epb + 1))
tag_blocks(mem, tags, s, epb, na) ==
    LET C(st) == st.i < na
        St(st) == [mem |-> ptr_swap(st.mem, tags + st.i, s + st.i * epb + 1),
                   i |-> st.i + 1]
    IN While(C, St, [mem |-> mem, i |-> 0]).mem

\* the constants of scrolling_block_merge; a, b are addresses, n, m lengths
scrolling_ctx(K, a, n, m) ==
    LET epb == K.len - K.tags_len
    IN [s |-> a + (n % epb), tags |-> 0, na |-> (n \div epb) - 1,
        nb |-> m \div epb, epb |-> epb, scrolling |-> TRUE]

\* scrolling_block_merge: tag and "shift" blocks
scrolling_setup(mem, K, a, n, m) ==
    LET ctx == scrolling_ctx(K, a, n, m)
        buf_origin == K.tags_len
        qa == n % ctx.epb
        mem1 == tag_blocks(mem, ctx.tags, ctx.s, ctx.epb, ctx.na)
        mem2 == swap_nonoverlapping(mem1, ctx.s, buf_origin, ctx.epb)
        mem3 == scroll_left(mem2, ctx.s, qa, ctx.epb)
    IN swap_nonoverlapping(mem3, buf_origin, ctx.s + ctx.na * ctx.epb,
                           B2N(ctx.na # 0) * ctx.epb)

\* the MergeState and the captured (buf, excess) when the drop loop starts
scrolling_start(mem, K, a, n, m) ==
    merge_start(scrolling_setup(mem, K, a, n, m), scrolling_ctx(K, a, n, m), 1,
                [buf |-> a, excess |-> n % (K.len - K.tags_len),
                 prev |-> 0, plen |-> 0])

\* scrolling_block_merge after merge_on returned ms.pid
scrolling_finish(ms, K, b, m) ==
    LET buf_origin == K.tags_len
        epb == K.len - K.tags_len
        qb == m % epb
        \* the rest of the elements are from A: first merge the B-tail up
        TailA ==
            LET a2 == ms.buf + epb
                n2 == (b + m - qb) - a2
                b2 == b + m - qb
            IN Let(local_merge_up(ms.mem, a2, n2, b2, qb, ms.buf, FALSE),
                   LAMBDA lm :
                       LET p == ms.buf + lm.i + lm.j
                           buf2 == p + (n2 - lm.i)
                       IN merge_up(scroll_right(lm.mem, p, n2 - lm.i, epb - lm.j),
                                   buf_origin, epb, buf2 + epb, qb - lm.j, TRUE))
    IN IF ms.pid = BlockB
       THEN merge_up(ms.mem, buf_origin, epb, ms.buf + epb,
                     (b + m) - (ms.buf + epb), TRUE)
       ELSE TailA

\* scrolling_block_merge after its guard
scrolling_block_merge(mem, K, a, n, b, m) ==
    LET ctx == scrolling_ctx(K, a, n, m)
    IN Let(select_while(
               select_while(
                   select_while(scrolling_start(mem, K, a, n, m), ctx, 1,
                                ctx.na + ctx.nb + 1),
                   ctx, 2, ctx.na + ctx.nb + 1),
               ctx, 3, ctx.na + ctx.nb + 1),
           LAMBDA ms : scrolling_finish(ms, K, b, m))

\* the constants of in_place_block_merge
in_place_ctx(K, a, n, m) ==
    LET epb == (n + m) \div K.len + 1
    IN [s |-> a + (n % epb), tags |-> 0, na |-> n \div epb, nb |-> m \div epb,
        epb |-> epb, scrolling |-> FALSE]

\* in_place_block_merge: sort the first na keys and tag the A-blocks
in_place_setup(mem, K, a, n, m) ==
    LET ctx == in_place_ctx(K, a, n, m)
    IN tag_blocks(sort_first(mem, K, ctx.na), ctx.tags, ctx.s, ctx.epb, ctx.na)

\* the MergeState and the captured prev when the drop loop starts
in_place_start(mem, K, a, n, m) ==
    merge_start(in_place_setup(mem, K, a, n, m), in_place_ctx(K, a, n, m), 0,
                [buf |-> 0, excess |-> 0, prev |-> a,
                 plen |-> n % ((n + m) \div K.len + 1)])

\* in_place_block_merge after merge_on returned ms.pid
in_place_finish(ms, K, a, n, m) ==
    LET qb == m % ((n + m) \div K.len + 1)
    IN IF ms.pid = BlockA
       THEN merge_left(ms.mem, a, n + m - qb, qb, FALSE)
       ELSE ms.mem

\* in_place_block_merge; always returns Done
in_place_block_merge(mem, K, a, n, b, m) ==
    LET ctx == in_place_ctx(K, a, n, m)
    IN Let(select_while(
               select_while(
                   select_while(in_place_start(mem, K, a, n, m), ctx, 1,
                                ctx.na + ctx.nb),
                   ctx, 2, ctx.na + ctx.nb),
               ctx, 3, ctx.na + ctx.nb),
           LAMBDA ms : in_place_finish(ms, K, a, n, m))

(***************************************************************************)
(* state.rs: finalization                                                  *)
(***************************************************************************)
\* UnionState::restore_by with KeysAlignment::Left; the task is v[K.len..n)
restore_by(mem, K, n) ==
    merge_right(sort_internal_buffer(mem, K), 0, K.len, n - K.len, FALSE).mem

(***************************************************************************)
(* aero.rs: the size schedule                                              *)
(***************************************************************************)
schedule_factorFloor(len) == Pow2(log2_ceil(len \div RunDivisor + 1) - 1)
schedule_factor(len) == Pow2(log2_ceil(len \div RunDivisor))

bound(len, fac, i) == (len * i) \div fac

(***************************************************************************)
(* The inputs: lengths, key patterns and external buffer lengths           *)
(***************************************************************************)
Lens == {0, 1, 2, 5, SmallLimit, SmallLimit + 1, 80, 99, MaxLen}
Mods == {1, 5, 13, 37}

\* the key of the element at index p: a sawtooth (a = 0) or a quadratic
\* residue pattern of period m, ascending or descending
PatternKey(p, m, a, rev) ==
    LET r == (a * p * p + p) % m IN IF rev THEN (m - 1) - r ELSE r

Gen(len, m, a, rev) == [p \in 0..(len - 1) |-> <<PatternKey(p, m, a, rev), p + 1>>]

Inputs == {Gen(len, m, a, rev) : len \in Lens, m \in Mods, a \in 0..MaxMul,
                                 rev \in BOOLEAN}

\* the lengths of ext tried in turn for one input
XLens(len) == <<0, len \div 4, len \div 2, len>>

\* what an ext may hold before the call: elements that are not elements of v
\* (their second component is 0), below or above every key of v
Fills == {<<0, 0>>, <<40, 0>>}

\* v followed by an ext of length xlen filled with f
Heap(v, len, xlen, f) ==
    [p \in 0..(len + xlen - 1) |-> IF p < len THEN v[p] ELSE f]

NoKeys == Keys_new(0, 0)

\* no Slot or Gap is alive
NoGuard == [alive |-> FALSE]

\* no MergeState exists
NoMerge == [phase |-> 0]

OpNames == {"collect", "insertion", "external", "basic", "scrolling",
            "in_place", "rotation", "restore"}

VARIABLES
    input,      \* v as handed to sort_full
    n,          \* v.len()
    xl,         \* ext.len()
    mem,        \* v (addresses 0..n-1) followed by ext (n..n+xl-1)
    pc,         \* where sort_full stands
    path,       \* which branch of sort_full was taken
    K,          \* state.keys (Keys), NoKeys before key collection
    base,       \* start of the slice handed to sort_with_merge_strategy
    len,        \* its length
    factor,     \* sort_with_merge_strategy: factor
    i,          \* the outer loop index
    k,          \* the inner loop index
    mid,        \* mid
    right,      \* right
    stage,      \* the strategy merge_regular tries next
    attempts,   \* the Sorted results returned for the current pair, in order
    ops,        \* how often each primitive ran in this call
    xi,         \* which entry of XLens this call uses
    results,    \* the path and the final v of the calls already made on input
    guard,      \* the fields of the live Slot or Gap, NoGuard when none is
    ms          \* the MergeState of the running block merge, NoMerge when none is

vars == <<input, n, xl, mem, pc, path, K, base, len, factor, i, k, mid, right,
          stage, attempts, ops, xi, results, guard, ms>>

V == [p \in 0..(n - 1) |-> mem[p]]
X == [p \in 0..(xl - 1) |-> mem[n + p]]

Count(name) == [ops EXCEPT ![name] = @ + 1]

\* a call sort_full(v, ext, less) about to start
EntryState(v, j, f) ==
    /\ mem' = Heap(v, n', XLens(n')[j], f)
    /\ xl' = XLens(n')[j]
    /\ xi' = j
    /\ pc' = "entry"
    /\ path' = "none"
    /\ K' = NoKeys
    /\ base' = 0 /\ len' = 0 /\ factor' = 0
    /\ i' = 0 /\ k' = 0 /\ mid' = 0 /\ right' = 0
    /\ stage' = "ext"
    /\ attempts' = <<>>
    /\ ops' = [o \in OpNames |-> 0]

Init ==
    /\ input \in Inputs
    /\ n = Cardinality(DOMAIN input)
    /\ xl = XLens(n)[1]
    /\ xi = 1
    /\ mem = Heap(input, n, xl, <<0, 0>>)
    /\ pc = "entry"
    /\ path = "none"
    /\ K = NoKeys
    /\ base = 0 /\ len = 0 /\ factor = 0
    /\ i = 0 /\ k = 0 /\ mid = 0 /\ right = 0
    /\ stage = "ext"
    /\ attempts = <<>>
    /\ ops = [o \in OpNames |-> 0]
    /\ results = <<>>
    /\ guard = NoGuard /\ ms = NoMerge

\* entering sort_with_merge_strategy on v[b0..b0+l0)
StartSchedule(b0, l0) ==
    /\ base' = b0 /\ len' = l0
    /\ factor' = schedule_factor(l0)
    /\ i' = 1 /\ k' = 0 /\ mid' = 0 /\ right' = 0
    /\ stage' = "ext"
    /\ pc' = "run"

\* sort_full: n <= 64
SmallSort ==
    /\ pc = "entry" /\ n <= SmallLimit
    /\ mem' = insertion_sort_safe(mem, 0, n)
    /\ path' = "small"
    /\ pc' = "done"
    /\ ops' = Count("insertion")
    /\ UNCHANGED <<input, n, xl, K, base, len, factor, i, k, mid, right, stage,
                   attempts, xi, results, guard, ms>>

\* sort_full: ext.len() >= n / 2
StartEasy ==
    /\ pc = "entry" /\ n > SmallLimit /\ xl >= n \div 2
    /\ path' = "easy"
    /\ StartSchedule(0, n)
    /\ UNCHANGED <<input, n, xl, mem, K, attempts, ops, xi, results, guard, ms>>

\* sort_full: collect_keys
CollectKeys ==
    /\ pc = "entry" /\ n > SmallLimit /\ xl < n \div 2
    /\ \E r \in {collect_keys(mem, n)} :
          /\ mem' = r.mem
          /\ K' = Keys_new(r.keys, r.buffer_len)
    /\ pc' = "match"
    /\ ops' = Count("collect")
    /\ UNCHANGED <<input, n, xl, path, base, len, factor, i, k, mid, right, stage,
                   attempts, xi, results, guard, ms>>

\* the arms of the match on state.keys.inner.len()
lazy_armShort(c) == 2 <= c /\ c < LazyLimit
lazy_arm(c) == 2 <= c /\ c <= LazyLimit

MatchOne ==
    /\ pc = "match" /\ K.len = 1
    /\ path' = "one"
    /\ pc' = "done"
    /\ UNCHANGED <<input, n, xl, mem, K, base, len, factor, i, k, mid, right,
                   stage, attempts, ops, xi, results, guard, ms>>

MatchLazy ==
    /\ pc = "match" /\ K.len # 1 /\ lazy_arm(K.len)
    /\ path' = "lazy"
    /\ StartSchedule(0, n)
    /\ UNCHANGED <<input, n, xl, mem, K, attempts, ops, xi, results, guard, ms>>

MatchSort ==
    /\ pc = "match" /\ K.len # 1 /\ ~lazy_arm(K.len)
    /\ path' = "internal"
    /\ StartSchedule(K.len, n - K.len)
    /\ UNCHANGED <<input, n, xl, mem, K, attempts, ops, xi, results, guard, ms>>

\* the end of one iteration of `for i in 1..=factor'
NextRun ==
    /\ k' = 0
    /\ stage' = "ext"
    /\ IF i = factor
       THEN /\ i' = i
            /\ pc' = IF path = "internal" THEN "restore" ELSE "done"
       ELSE /\ i' = i + 1
            /\ pc' = "run"

\* [mid, right] = [right, bound(i)]
NextBounds ==
    /\ mid' = right
    /\ right' = bound(len, factor, i)

\* one iteration of `for i in 1..=factor' up to the merge loop:
\* insertion_sort_safe(v[mid..right])
SortRun ==
    /\ pc = "run"
    /\ NextBounds
    /\ mem' = insertion_sort_safe(mem, base + right, bound(len, factor, i) - right)
    /\ ops' = Count("insertion")
    /\ IF trailing_zeros(i) >= 1
       THEN k' = 1 /\ i' = i /\ stage' = "ext" /\ pc' = "merge"
       ELSE NextRun
    /\ UNCHANGED <<input, n, xl, path, K, base, len, factor, attempts, xi, results, guard, ms>>

\* the pair handed to the merge callback at step i, level k
Left == bound(len, factor, i - Pow2(k))
PairA == base + Left
PairN == mid - Left
PairB == base + mid
PairM == right - mid

\* after the merge callback returned: mid = left, next k
PairDoneKeepMid ==
    /\ mid' = mid
    /\ right' = right
    /\ IF k < trailing_zeros(i)
       THEN k' = k + 1 /\ i' = i /\ stage' = "ext" /\ pc' = "merge"
       ELSE NextRun
PairDone ==
    /\ mid' = Left
    /\ right' = right
    /\ IF k < trailing_zeros(i)
       THEN k' = k + 1 /\ i' = i /\ stage' = "ext" /\ pc' = "merge"
       ELSE NextRun

\* <[T] as Merge>::merge on ext
ext_merge(m0, a, na, b, nb) ==
    IF ext_can_merge(xl, na, nb)
    THEN [res |-> "Done", mem |-> ext_merge_unchecked(m0, n, a, na, b, nb)]
    ELSE [res |-> "Fail", mem |-> m0]

\* sort_easy: the callback discards the result of ext.merge
MergeEasy ==
    /\ pc = "merge" /\ path = "easy"
    /\ \E r \in {ext_merge(mem, PairA, PairN, PairB, PairM)} :
          /\ mem' = r.mem
          /\ attempts' = <<[strategy |-> "ext", res |-> r.res]>>
          /\ ops' = IF r.res = "Done" THEN Count("external") ELSE ops
    /\ PairDone
    /\ UNCHANGED <<input, n, xl, path, K, base, len, factor, xi, results, guard, ms>>

\* sort_lazy: merge_in_place
MergeLazy ==
    /\ pc = "merge" /\ path = "lazy"
    /\ mem' = merge_in_place(mem, PairA, PairN, PairM)
    /\ ops' = Count("rotation")
    /\ PairDone
    /\ UNCHANGED <<input, n, xl, path, K, base, len, factor, attempts, xi, results, guard, ms>>

\* a strategy of merge_regular returned Fail: the next one is tried
Failed(name, next) ==
    /\ attempts' = Append(IF stage = "ext" THEN <<>> ELSE attempts,
                          [strategy |-> name, res |-> "Fail"])
    /\ stage' = next
    /\ UNCHANGED <<input, n, xl, mem, pc, path, K, base, len, factor, i, k, mid,
                   right, ops, xi, results, guard, ms>>

\* a strategy of merge_regular returned Done with memory m1
Succeeded(name, op, m1) ==
    /\ attempts' = Append(IF stage = "ext" THEN <<>> ELSE attempts,
                          [strategy |-> name, res |-> "Done"])
    /\ mem' = m1
    /\ ops' = Count(op)
    /\ PairDone
    /\ UNCHANGED <<input, n, xl, path, K, base, len, factor, xi, results, guard, ms>>

\* merge_regular: ext.merge([a, b])
TryExternalSkip ==
    /\ pc = "merge" /\ path = "internal" /\ stage = "ext"
    /\ IF ext_can_merge(xl, PairN, PairM)
       THEN Succeeded("ext", "external",
                      ext_merge_unchecked(mem, n, PairA, PairN, PairB, PairM))
       ELSE Failed("ext", "scrolling")
TryExternal ==
    /\ pc = "merge" /\ path = "internal" /\ stage = "ext"
    /\ IF ext_can_merge(xl, PairN, PairM)
       THEN Succeeded("ext", "external",
                      ext_merge_unchecked(mem, n, PairA, PairN, PairB, PairM))
       ELSE Failed("ext", "basic")

\* keys.merge([a, b]) -> merge_unchecked -> merge_basic
TryBasic ==
    /\ pc = "merge" /\ path = "internal" /\ stage = "basic"
    /\ IF basic_can_merge(K, PairN, PairM)
       THEN Succeeded("basic", "basic",
                      merge_basic(mem, K, PairA, PairN, PairB, PairM))
       ELSE Failed("basic", "scrolling")

\* block_merge -> scrolling_block_merge
TryScrolling ==
    /\ pc = "merge" /\ path = "internal" /\ stage = "scrolling"
    /\ IF can_scrolling_block_merge(K, PairN)
       THEN Succeeded("scrolling", "scrolling",
                      scrolling_block_merge(mem, K, PairA, PairN, PairB, PairM))
       ELSE Failed("scrolling", "in_place")

\* block_merge -> in_place_block_merge
TryInPlace ==
    /\ pc = "merge" /\ path = "internal" /\ stage = "in_place"
    /\ Succeeded("in_place", "in_place",
                 in_place_block_merge(mem, K, PairA, PairN, PairB, PairM))

\* state.restore_by(less)
Restore ==
    /\ pc = "restore"
    /\ mem' = restore_by(mem, K, n)
    /\ ops' = Count("restore")
    /\ pc' = "done"
    /\ UNCHANGED <<input, n, xl, path, K, base, len, factor, i, k, mid, right,
                   stage, attempts, xi, results, guard, ms>>

\* sort_with_by called again on a fresh copy of the input, with the next ext
NextBuffer ==
    /\ pc = "done" /\ xi < Len(XLens(n))
    /\ results' = Append(results, [path |-> path, v |-> V])
    /\ input' = input /\ n' = n
    /\ \E f \in Fills : EntryState(input, xi + 1, f)
    /\ UNCHANGED <<guard, ms>>

Next ==
    \/ SmallSort
    \/ StartEasy
    \/ CollectKeys
    \/ MatchOne
    \/ MatchLazy
    \/ MatchSort
    \/ SortRun
    \/ MergeEasy
    \/ MergeLazy
    \/ TryExternal
    \/ TryBasic
    \/ TryScrolling
    \/ TryInPlace
    \/ Restore
    \/ NextBuffer

Spec == Init /\ [][Next]_vars

(***************************************************************************)
(* The size schedule alone: the bounds of sort_with_merge_strategy for     *)
(* every slice length up to MaxSched, without the elements                 *)
(***************************************************************************)
InitSched ==
    /\ input = <<>> /\ n = 0 /\ xl = 0 /\ mem = <<>>
    /\ path = "none" /\ K = NoKeys
    /\ base = 0
    /\ len \in (SmallLimit + 1)..MaxSched
    /\ factor = schedule_factor(len)
    /\ i = 1 /\ k = 0 /\ mid = 0 /\ right = 0
    /\ stage = "ext" /\ attempts = <<>>
    /\ ops = [o \in OpNames |-> 0]
    /\ xi = 1 /\ results = <<>> /\ guard = NoGuard /\ ms = NoMerge
    /\ pc = "run"

\* one iteration of `for i in 1..=factor', the bounds only
ScheduleStep ==
    /\ pc = "run"
    /\ NextBounds
    /\ IF i = factor THEN i' = i /\ pc' = "done" ELSE i' = i + 1 /\ pc' = "run"
    /\ UNCHANGED <<input, n, xl, mem, path, K, base, len, factor, k, stage,
                   attempts, ops, xi, results, guard, ms>>

NextSched == ScheduleStep

SpecSched == InitSched /\ [][NextSched]_vars

(***************************************************************************)
(* The buffer sizing of collect_keys alone: every length n up to MaxSizing *)
(* with every key count k the scan can end with                            *)
(***************************************************************************)
InitSizing ==
    /\ input = <<>> /\ xl = 0 /\ mem = <<>>
    /\ path = "none" /\ K = NoKeys
    /\ base = 0 /\ len = 0 /\ factor = 0
    /\ i = 0 /\ mid = 0 /\ right = 0
    /\ stage = "ext" /\ attempts = <<>>
    /\ ops = [o \in OpNames |-> 0]
    /\ xi = 1 /\ results = <<>> /\ guard = NoGuard /\ ms = NoMerge
    /\ n \in (SmallLimit + 1)..MaxSizing
    /\ k \in 1..KeyLimit(n)
    /\ pc = "sizing"

\* let buffer_len = ...; Keys::new(internal_buffer, buffer_len)
SizeBuffer ==
    /\ pc = "sizing"
    /\ K' = Keys_new(k, BufferLen(n, k))
    /\ pc' = "sized"
    /\ UNCHANGED <<input, n, xl, mem, path, base, len, factor, i, k, mid, right,
                   stage, attempts, ops, xi, results, guard, ms>>

NextSizing == SizeBuffer

SpecSizing == InitSizing /\ [][NextSizing]_vars

(***************************************************************************)
(* The guarded primitives one comparison at a time, with a comparator that *)
(* may unwind at any comparison.  pc tells which primitive is called and   *)
(* where it stands; guard holds the fields of its Slot or Gap.             *)
(***************************************************************************)
\* the sorted runs of length l0 over the keys 0 and 1, as the number of 0s
RunKey(zeros, p) == IF p < zeros THEN 0 ELSE 1

\* insertion sort: every sequence of keys 0..2 of a length up to MaxRun
SlotInputs ==
    UNION {[0..(l0 - 1) -> 0..2] : l0 \in 0..MaxRun}

\* the ids are the input indices
WithIds(keys) == [p \in DOMAIN keys |-> <<keys[p], p + 1>>]

\* c0 buffer or tag elements with their own keys, then the runs a and b
MergeInput(c0, na, za, nb, zb) ==
    [p \in 0..(c0 + na + nb - 1) |->
        IF p < c0 THEN <<10 + p, p + 1>>
        ELSE IF p < c0 + na THEN <<RunKey(za, p - c0), p + 1>>
        ELSE <<RunKey(zb, p - c0 - na), p + 1>>]

InitUnwind ==
    /\ path = "none" /\ factor = 0 /\ i = 0 /\ k = 0
    /\ stage = "ext" /\ attempts = <<>>
    /\ ops = [o \in OpNames |-> 0]
    /\ xi = 1 /\ results = <<>> /\ guard = NoGuard /\ ms = NoMerge
    /\ \/ /\ pc = "call_insertion"
          /\ \E keys \in SlotInputs : input = WithIds(keys)
          /\ n = Cardinality(DOMAIN input)
          /\ xl = 0 /\ K = NoKeys
          /\ base = 0 /\ len = n /\ mid = 0 /\ right = n
          /\ mem = input
       \/ /\ pc = "call_ext"
          /\ \E na \in 1..MaxRun, nb \in 1..MaxRun :
             \E za \in 0..na, zb \in 0..nb, xe \in 0..1, f \in Fills :
                /\ input = MergeInput(0, na, za, nb, zb)
                /\ n = na + nb
                /\ xl = Min(na, nb) + xe
                /\ K = NoKeys
                /\ base = 0 /\ len = n /\ mid = na /\ right = n
                /\ mem = Heap(input, n, xl, f)
       \/ /\ pc = "call_basic"
          /\ \E na \in 1..MaxRun, nb \in 1..MaxRun :
             \E za \in 0..na, zb \in 0..nb, xe \in 0..1, tl \in 0..1 :
                /\ input = MergeInput(tl + Min(na, nb) + xe, na, za, nb, zb)
                /\ n = tl + Min(na, nb) + xe + na + nb
                /\ xl = 0
                /\ K = Keys_new(tl + Min(na, nb) + xe, Min(na, nb) + xe)
                /\ base = K.len /\ len = na + nb
                /\ mid = K.len + na /\ right = n
                /\ mem = input

UnwindFrame ==
    UNCHANGED <<input, n, xl, path, K, base, len, factor, k, mid, right, stage,
                attempts, ops, xi, results, ms>>

\* insertion_sort_safe(v): `for i in 1..n' starts
CallInsertion ==
    /\ pc = "call_insertion"
    /\ i' = 1
    /\ pc' = "slot_outer"
    /\ UNCHANGED <<mem, guard>>
    /\ UnwindFrame

\* let mut slot = Slot(s.add(i).read(), s, i)
SlotLift ==
    /\ pc = "slot_outer" /\ i < n
    /\ guard' = [alive |-> TRUE, held |-> mem[i], pos |-> i]
    /\ pc' = "slot_inner"
    /\ UNCHANGED <<mem, i>>
    /\ UnwindFrame

\* the range 1..n is exhausted
SlotReturn ==
    /\ pc = "slot_outer" /\ i >= n
    /\ pc' = "returned"
    /\ UNCHANGED <<mem, i, guard>>
    /\ UnwindFrame

\* the test of the inner while loop returns; the slot drops when it fails
SlotTest ==
    /\ pc = "slot_inner"
    /\ IF SlotCond(mem, 0, guard.held, guard.pos)
       THEN /\ mem' = SlotShift(mem, 0, guard.pos)
            /\ guard' = [guard EXCEPT !.pos = @ - 1]
            /\ UNCHANGED <<pc, i>>
       ELSE /\ mem' = SlotDrop(mem, 0, guard.held, guard.pos)
            /\ guard' = NoGuard
            /\ i' = i + 1
            /\ pc' = "slot_outer"
    /\ UnwindFrame

\* less unwinds in the test of the inner loop: the slot drops
SlotUnwind ==
    /\ pc = "slot_inner" /\ guard.pos # 0
    /\ mem' = SlotDrop(mem, 0, guard.held, guard.pos)
    /\ guard' = [guard EXCEPT !.alive = FALSE]
    /\ pc' = "unwound"
    /\ UNCHANGED i
    /\ UnwindFrame

\* the Gap of merge_up::<_, S>([a, b]) right after its construction
GapUp(S, a, na, b, nb) ==
    [alive |-> TRUE, up |-> TRUE, S |-> S, a |-> a, n |-> na, b |-> b, m |-> nb,
     i |-> 0, j |-> 0]

\* the Gap of merge_down::<_, S>([a, b]) right after its construction
GapDown(S, a, na, b, nb) ==
    [alive |-> TRUE, up |-> FALSE, S |-> S, a |-> a, n |-> na, b |-> b, m |-> nb]

\* the shorter run moves into the buffer at address buf, then the merge starts
StartMerge(S, buf, a, na, b, nb) ==
    IF na <= nb
    THEN /\ mem' = move_slice(mem, buf, a, na, S)
         /\ guard' = GapUp(S, buf, na, b, nb)
         /\ pc' = "gap_up"
    ELSE /\ mem' = move_slice(mem, buf, b, nb, S)
         /\ guard' = GapDown(S, a, na, buf, nb)
         /\ pc' = "gap_down"

\* ext.merge([a, b]) up to the first comparison
CallExt ==
    /\ pc = "call_ext"
    /\ ext_can_merge(xl, mid - base, right - mid)
    /\ StartMerge(FALSE, n, base, mid - base, mid, right - mid)
    /\ UNCHANGED i
    /\ UnwindFrame

\* keys.merge([a, b]) up to the first comparison
CallBasic ==
    /\ pc = "call_basic"
    /\ basic_can_merge(K, mid - base, right - mid)
    /\ StartMerge(TRUE, K.tags_len, base, mid - base, mid, right - mid)
    /\ UNCHANGED i
    /\ UnwindFrame

\* the Gap of merge_up as the record the loop of merge_up works on
GapUpState == [mem |-> mem, i |-> guard.i, j |-> guard.j, n |-> guard.n]

\* the test of the loop of merge_up, then one iteration or the return
GapUpTest ==
    /\ pc = "gap_up"
    /\ IF GapUpCond(GapUpState, guard.m)
       THEN \E g \in {GapUpStep(GapUpState, guard.a, guard.b, guard.S)} :
               /\ mem' = g.mem
               /\ guard' = [guard EXCEPT !.i = g.i, !.j = g.j]
               /\ UNCHANGED pc
       ELSE /\ mem' = GapUpDrop(GapUpState, guard.a, guard.b, guard.S)
            /\ guard' = NoGuard
            /\ pc' = "returned"
    /\ UNCHANGED i
    /\ UnwindFrame

\* less unwinds in the loop of merge_up: the gap drops
GapUpUnwind ==
    /\ pc = "gap_up" /\ GapUpCond(GapUpState, guard.m)
    /\ mem' = GapUpDrop(GapUpState, guard.a, guard.b, guard.S)
    /\ guard' = [guard EXCEPT !.alive = FALSE]
    /\ pc' = "unwound"
    /\ UNCHANGED i
    /\ UnwindFrame

\* the Gap of merge_down as the record the loop of merge_down works on
GapDownState == [mem |-> mem, n |-> guard.n, m |-> guard.m]

\* the test of the loop of merge_down, then one iteration or the return
GapDownTest ==
    /\ pc = "gap_down"
    /\ IF GapDownCond(GapDownState)
       THEN \E g \in {GapDownStep(GapDownState, guard.a, guard.b, guard.S)} :
               /\ mem' = g.mem
               /\ guard' = [guard EXCEPT !.n = g.n, !.m = g.m]
               /\ UNCHANGED pc
       ELSE /\ mem' = GapDownDrop(GapDownState, guard.a, guard.b, guard.S)
            /\ guard' = NoGuard
            /\ pc' = "returned"
    /\ UNCHANGED i
    /\ UnwindFrame

\* less unwinds in the loop of merge_down: the gap drops
GapDownUnwind ==
    /\ pc = "gap_down" /\ GapDownCond(GapDownState)
    /\ mem' = GapDownDrop(GapDownState, guard.a, guard.b, guard.S)
    /\ guard' = [guard EXCEPT !.alive = FALSE]
    /\ pc' = "unwound"
    /\ UNCHANGED i
    /\ UnwindFrame

NextUnwind ==
    \/ CallInsertion
    \/ SlotLift
    \/ SlotReturn
    \/ SlotTest
    \/ SlotUnwind
    \/ CallExt
    \/ CallBasic
    \/ GapUpTest
    \/ GapUpUnwind
    \/ GapDownTest
    \/ GapDownUnwind

SpecUnwind == InitUnwind /\ [][NextUnwind]_vars


(***************************************************************************)
(* sort_full with the block merges one drop at a time: mem keeps the       *)
(* memory block_merge was entered with until the merge is finished, and    *)
(* ms holds the MergeState, the variables captured by on_drop and the      *)
(* select_while (1, 2 or 3) that is running                                *)
(***************************************************************************)
InPhase(st, ph) == [phase |-> ph] @@ st

\* the inputs of Init and inputs that fall over their whole length, so that
\* whole runs of b lie below the run a
LongMod == 97
BlockInputs ==
    Inputs \cup {Gen(l0, LongMod, a, TRUE) : l0 \in {99, MaxLen}, a \in 0..1}

InitBlocks ==
    /\ input \in BlockInputs
    /\ n = Cardinality(DOMAIN input)
    /\ xl = XLens(n)[1]
    /\ xi = 1
    /\ mem = Heap(input, n, xl, <<0, 0>>)
    /\ pc = "entry"
    /\ path = "none"
    /\ K = NoKeys
    /\ base = 0 /\ len = 0 /\ factor = 0
    /\ i = 0 /\ k = 0 /\ mid = 0 /\ right = 0
    /\ stage = "ext"
    /\ attempts = <<>>
    /\ ops = [o \in OpNames |-> 0]
    /\ results = <<>>
    /\ guard = NoGuard /\ ms = NoMerge

\* the constants of the MergeContext of the running block merge
Ctx ==
    IF stage = "scrolling" THEN scrolling_ctx(K, PairA, PairN, PairM)
    ELSE in_place_ctx(K, PairA, PairN, PairM)

\* range.start and range.end of merge_on
RangeStart == IF stage = "scrolling" THEN 1 ELSE 0
RangeEnd == RangeStart + Ctx.na + Ctx.nb

\* the condition of the running select_while
Selecting == select_cond(ms, Ctx, ms.phase, RangeEnd)

BlocksFrame ==
    UNCHANGED <<input, n, xl, mem, path, K, base, len, factor, i, k, mid, right,
                stage, attempts, ops, xi, results, guard>>

\* block_merge -> scrolling_block_merge up to the drop loop
EnterScrolling ==
    /\ pc = "merge" /\ path = "internal" /\ stage = "scrolling"
    /\ IF can_scrolling_block_merge(K, PairN)
       THEN /\ ms' = InPhase(scrolling_start(mem, K, PairA, PairN, PairM), 1)
            /\ pc' = "drop"
            /\ BlocksFrame
       ELSE Failed("scrolling", "in_place")

\* block_merge -> in_place_block_merge up to the drop loop
EnterInPlace ==
    /\ pc = "merge" /\ path = "internal" /\ stage = "in_place"
    /\ ms' = InPhase(in_place_start(mem, K, PairA, PairN, PairM), 1)
    /\ pc' = "drop"
    /\ BlocksFrame

\* one iteration of select_while
Drop ==
    /\ pc = "drop" /\ Selecting
    /\ ms' = select_step(ms, Ctx, ms.phase)
    /\ pc' = pc
    /\ BlocksFrame

\* a select_while is left and the next one starts
NextSelect ==
    /\ pc = "drop" /\ ~Selecting /\ ms.phase < 3
    /\ ms' = [ms EXCEPT !.phase = @ + 1]
    /\ pc' = pc
    /\ BlocksFrame

\* merge_on returns self.pid; the tail is merged and Done is returned
FinishBlocks ==
    /\ pc = "drop" /\ ~Selecting /\ ms.phase = 3
    /\ mem' = IF stage = "scrolling"
              THEN scrolling_finish(ms, K, PairB, PairM)
              ELSE in_place_finish(ms, K, PairA, PairN, PairM)
    /\ attempts' = Append(attempts, [strategy |-> stage, res |-> "Done"])
    /\ ops' = Count(stage)
    /\ PairDone
    /\ ms' = NoMerge
    /\ UNCHANGED <<input, n, xl, path, K, base, len, factor, xi, results, guard>>

NextBlocks ==
    \/ SmallSort
    \/ StartEasy
    \/ CollectKeys
    \/ MatchOne
    \/ MatchLazy
    \/ MatchSort
    \/ SortRun
    \/ MergeEasy
    \/ MergeLazy
    \/ TryExternal
    \/ TryBasic
    \/ EnterScrolling
    \/ EnterInPlace
    \/ Drop
    \/ NextSelect
    \/ FinishBlocks
    \/ Restore
    \/ NextBuffer

SpecBlocks == InitBlocks /\ [][NextBlocks]_vars
(***************************************************************************)
(* Properties                                                              *)
(***************************************************************************)
\* v[lo..hi) is non-decreasing under less
Sorted(v, lo, hi) == \A p \in lo..(hi - 2) : ~less(v[p + 1], v[p])

\* v and w hold the same elements; the elements of an input are pairwise
\* distinct (by their ids), so for a v as long as the input w this is
\* equality of multisets
SameElements(v, w) == {v[p] : p \in DOMAIN v} = {w[p] : p \in DOMAIN w}

\* elements that compare equal stand in the order of their input indices
StableOrder(v) ==
    \A p \in DOMAIN v : \A q \in DOMAIN v :
        (p < q /\ v[p][1] = v[q][1]) => v[p][2] < v[q][2]

\* all elements of v compare equal
AllEqual(v) == \A p \in DOMAIN v : \A q \in DOMAIN v : ~less(v[p], v[q])

Last(s) == s[Len(s)]

\* C1: when sort_full has returned, V is non-decreasing: less(V[p+1], V[p])
\* is false for every p in [0, n-1), whatever the length of V and of X.
C1_Sortedness == pc = "done" => Sorted(V, 0, n)

C1_Witness ==
    pc = "done" /\ path = "internal" /\ ~Sorted(input, 0, n) /\ Sorted(V, 0, n)

\* C2: when sort_full has returned, V holds exactly the elements of the
\* input: none dropped, none duplicated, none replaced by an element of X,
\* on every path.
C2_Permutation == pc = "done" => SameElements(V, input)

C2_Witness ==
    pc = "done" /\ path = "easy" /\ xl < n /\ V # input /\ SameElements(V, input)

\* C3: the sort is stable: when sort_full has returned, elements that compare
\* equal stand in V in the order of their input indices, on every path.
C3_Stability == pc = "done" => StableOrder(V)

C3_Witness ==
    /\ pc = "done" /\ ops["in_place"] > 0 /\ ops["restore"] = 1
    /\ V # input
    /\ \E p \in DOMAIN input : \E q \in DOMAIN input :
          p < q /\ input[p][1] = input[q][1]

\* C4: the final V is element for element the same whether X has length 0,
\* n/4, n/2 or n and whatever X held before: every earlier call on the same
\* input ended with the V this call ends with.
C4_BufferIrrelevance ==
    pc = "done" => \A j \in DOMAIN results : results[j].v = V

C4_Witness ==
    /\ pc = "done" /\ path = "easy" /\ Len(results) = 3
    /\ results[1].path = "internal"
    /\ V # input

\* C5: when the comparator unwinds at a comparison inside the guarded
\* insertion sort or inside merge_up / merge_down (copying against X or
\* swapping against the internal buffer), then after the Slot or Gap has
\* dropped, V (key region included) holds exactly the elements of the input.
C5_UnwindKeepsElements == pc = "unwound" => SameElements(V, input)

C5_Witness ==
    /\ pc = "unwound"
    /\ "up" \in DOMAIN guard
    /\ guard.up /\ ~guard.S
    /\ guard.i > 0 /\ guard.j > 0 /\ guard.n - guard.i > 1
    /\ SameElements(V, input)

\* C6: for n > 64 and |X| >= n / 2 no keys are collected, every pair the
\* schedule hands to the merge step has |X| >= min(|a|, |b|), and every
\* external-buffer merge of sort_easy returns Done.
C6_EasyPath ==
    (n > SmallLimit /\ xl >= n \div 2 /\ pc # "entry") =>
        /\ path = "easy"
        /\ ops["collect"] = 0
        /\ K = NoKeys
        /\ \A j \in DOMAIN attempts : attempts[j].res = "Done"
        /\ pc = "merge" => xl >= Min(PairN, PairM)

C6_Witness ==
    /\ pc = "done" /\ path = "easy"
    /\ n % 2 = 1 /\ xl = n \div 2
    /\ ops["external"] = factor - 1
    /\ Last(attempts).res = "Done"

\* C7: for n > 64 and |X| < n / 2 the key count c decides the path: c = 1
\* only when all elements compare equal, and then sort_full returns with V
\* untouched; 2 <= c <= 12 sorts all of V with insertion sort and rotation
\* merges only; c >= 13 sorts the task V[c, n) with merge_regular and runs the
\* finalization exactly once.
C7_Dispatch ==
    (n > SmallLimit /\ xl < n \div 2 /\ pc \notin {"entry", "match"}) =>
        /\ ops["collect"] = 1
        /\ (K.len = 1) <=> (path = "one")
        /\ (2 <= K.len /\ K.len <= LazyLimit) <=> (path = "lazy")
        /\ (K.len > LazyLimit) <=> (path = "internal")
        /\ path = "one" =>
              /\ AllEqual(input)
              /\ pc = "done" /\ V = input
              /\ \A o \in OpNames \ {"collect"} : ops[o] = 0
        /\ path = "lazy" =>
              /\ base = 0 /\ len = n
              /\ \A o \in {"external", "basic", "scrolling", "in_place", "restore"} :
                    ops[o] = 0
        /\ path = "internal" =>
              /\ base = K.len /\ len = n - K.len
              /\ ops["rotation"] = 0
              /\ ops["restore"] = IF pc = "done" THEN 1 ELSE 0

C7_Witness ==
    /\ pc = "done" /\ path = "lazy" /\ K.len = LazyLimit
    /\ ops["rotation"] > 0 /\ ops["insertion"] > 0

\* C8: bound(0) = 0, bound(factor) = n and bound is non-decreasing; the merge
\* made at step i and level k gets exactly V[bound(i - 2^k), bound(i - 2^(k-1)))
\* and V[bound(i - 2^(k-1)), bound(i)), each of them sorted at that moment;
\* and when the loop has ended the whole slice is one sorted run.
C8_Schedule ==
    (path \in {"easy", "lazy", "internal"}) =>
        /\ bound(len, factor, 0) = 0
        /\ bound(len, factor, factor) = len
        /\ \A j \in 0..(factor - 1) :
              bound(len, factor, j) <= bound(len, factor, j + 1)
        /\ pc = "merge" =>
              /\ 1 <= k /\ k <= trailing_zeros(i)
              /\ Left = bound(len, factor, i - Pow2(k))
              /\ mid = bound(len, factor, i - Pow2(k - 1))
              /\ right = bound(len, factor, i)
              /\ Sorted(mem, PairA, PairB)
              /\ Sorted(mem, PairB, base + right)
        /\ pc \in {"restore", "done"} => Sorted(mem, base, base + len)

C8_Witness ==
    /\ pc = "merge" /\ path = "internal" /\ k = 3
    /\ len % factor # 0
    /\ ~Sorted(mem, PairA, base + right)

\* C9 as claimed: every base run V[bound(i-1), bound(i)) of a slice longer
\* than 64 has between 16 and 32 elements.
C9_RunLengthClaimed ==
    (pc \in {"run", "done"} /\ right # 0) => (16 <= right - mid /\ right - mid <= 32)

\* C9: every base run V[bound(i-1), bound(i)) of a slice longer than 64 has
\* between 8 and 20 elements.
C9_RunLength ==
    (pc \in {"run", "done"} /\ right # 0) => (8 <= right - mid /\ right - mid <= 20)

C9_Witness ==
    pc = "run" /\ i > 1 /\ right - mid = 8 /\ factor = 32

\* the strategies of merge_regular in the order of their attempts
StrategyOrder == <<"ext", "basic", "scrolling", "in_place">>

\* the attempts on the current pair follow StrategyOrder, all but the last
\* returned Fail, and a finished pair ends with the one Done
AttemptsInOrder ==
    path = "internal" =>
        /\ Len(attempts) <= Len(StrategyOrder)
        /\ \A j \in DOMAIN attempts :
              /\ attempts[j].strategy = StrategyOrder[j]
              /\ j < Len(attempts) => attempts[j].res = "Fail"
        /\ (pc = "merge" /\ stage # "ext") =>
              /\ Last(attempts).res = "Fail"
              /\ stage = StrategyOrder[Len(attempts) + 1]
        /\ (attempts # <<>> /\ (pc # "merge" \/ stage = "ext")) =>
              Last(attempts).res = "Done"

\* a step of merge_regular: a Fail leaves the memory (a, b, X and K) as it
\* is, the Done leaves the pair merged
AttemptStep ==
    (pc = "merge" /\ path = "internal") =>
        IF pc' = "merge" /\ stage' # "ext"
        THEN mem' = mem /\ K' = K /\ Last(attempts').res = "Fail"
        ELSE /\ Last(attempts').res = "Done"
             /\ Sorted(mem', PairA, base + right)
             /\ K' = K

\* C10: merge_regular tries external-buffer merge, basic merge, scrolling
\* block merge and in-place block merge in this order, a later one only after
\* every earlier one returned Fail; a Fail has modified nothing; exactly one
\* strategy returns Done, which leaves the pair merged.
C10_StrategyOrder == [](AttemptsInOrder) /\ [][AttemptStep]_vars

C10_Witness ==
    /\ path = "internal" /\ Len(attempts) = 4
    /\ Last(attempts).res = "Done"
    /\ ops["in_place"] > 0

\* the input indices (ids) of the elements of the input that compare equal
\* to x
ClassIds(x) == {input[p][2] : p \in {q \in DOMAIN input : input[q][1] = x[1]}}

\* the least element of a non-empty set of numbers
Least(s) == CHOOSE x \in s : \A y \in s : x <= y

\* the number of values of the input that compare different
Distinct == Cardinality({input[p][1] : p \in DOMAIN input})

\* C11: right after collect_keys on V of length n > 64 the key region V[0, c)
\* is strictly ascending, 1 <= c <= floor(sqrt(2n)), c < floor(sqrt(2n)) only
\* if V has exactly c distinct values, every key is the leftmost input
\* occurrence of its class, and the task V[c, n) holds all other elements in
\* their input order.
C11_KeyCollection ==
    pc = "match" =>
        /\ 1 <= K.len /\ K.len * K.len <= 2 * n
        /\ \A p \in 0..(K.len - 2) : less(mem[p], mem[p + 1])
        /\ (K.len + 1) * (K.len + 1) <= 2 * n => Distinct = K.len
        /\ \A p \in 0..(K.len - 1) : mem[p][2] = Least(ClassIds(mem[p]))
        /\ \A p \in K.len..(n - 2) : mem[p][2] < mem[p + 1][2]
        /\ SameElements(V, input)

C11_Witness ==
    /\ pc = "match" /\ V # input
    /\ K.len > LazyLimit
    /\ (K.len + 1) * (K.len + 1) <= 2 * n
    /\ \E p \in K.len..(n - 1) : less(mem[p], mem[K.len - 1])

\* C12 as claimed: the buffer length is at most c / 2 and is the largest
\* value not above c / 2 for which b_len < (n - c) / (2 * (c - b_len)) does
\* not hold; the tags get the other c - b_len keys.
C12_BufferSizeClaimed ==
    pc = "sized" =>
        /\ 2 * K.buffer_len <= K.len
        /\ ~TagsTooFew(n, K.len, K.buffer_len)
        /\ \A b \in (K.buffer_len + 1)..(K.len \div 2) : TagsTooFew(n, K.len, b)
        /\ K.tags_len = K.len - K.buffer_len

\* C12: the tags length t is at most c / 2 and is the smallest value of
\* 0..c/2 for which t < (n - c) / 2 / (c - t) does not hold (c / 2 when it
\* holds for every smaller value); the buffer gets the other c - t keys, so
\* the buffer length is at least c / 2.
C12_BufferSize ==
    pc = "sized" =>
        /\ K.len = k
        /\ K.buffer_len = K.len - K.tags_len
        /\ 2 * K.tags_len <= K.len
        /\ 2 * K.buffer_len >= K.len
        /\ K.tags_len < K.len \div 2 => ~TagsTooFew(n, K.len, K.tags_len)
        /\ \A t \in 0..(K.tags_len - 1) : TagsTooFew(n, K.len, t)

C12_Witness ==
    /\ pc = "sized"
    /\ 0 < K.tags_len /\ K.tags_len < K.len \div 2
    /\ 2 * K.buffer_len > K.len + 1

\* the states in which K is at rest: after collection and between the merges
\* of the internal path
KeysResting ==
    \/ pc = "match"
    \/ path = "internal" /\ pc \in {"run", "merge", "restore"}

KeySet == {mem[p] : p \in 0..(K.len - 1)}

Ascending(m0, hi) == \A p \in 0..(hi - 2) : less(m0[p], m0[p + 1])

KeysAtRest ==
    KeysResting =>
        /\ Ascending(mem, K.tags_len)
        /\ \A p \in 0..(K.tags_len - 1) : \A q \in K.tags_len..(K.len - 1) :
              less(mem[p], mem[q])
        /\ \A l \in 0..K.len : Ascending(sort_first(mem, K, l), l)
        /\ pc = "restore" => Ascending(sort_internal_buffer(mem, K), K.len)

KeysKept == KeysResting /\ KeysResting' => KeySet' = KeySet

\* C13: whenever K is at rest (after collection and after every merge of the
\* internal path) it holds the same c elements as after collection, its tags
\* are ascending and every buffer element is greater than every tag; so
\* sort_first(len) leaves the first len keys ascending and
\* sort_internal_buffer leaves all of K ascending before the redistribution.
C13_KeysAtRest == [](KeysAtRest) /\ [][KeysKept]_vars

C13_Witness ==
    /\ pc = "restore"
    /\ ops["basic"] > 0 /\ ops["scrolling"] > 0
    /\ K.tags_len > 1
    /\ \E p \in K.tags_len..(K.len - 2) : less(mem[p + 1], mem[p])

\* m1[lo..hi) is the stable merge of the runs m0[lo..md) and m0[md..hi): it is
\* non-decreasing, holds the same elements, and elements that compare equal
\* stand in the order they had in m0
Place(m1, lo, hi, x) == CHOOSE p \in lo..(hi - 1) : m1[p] = x

StableMergeOf(m0, m1, lo, md, hi) ==
    /\ Sorted(m1, lo, hi)
    /\ {m1[p] : p \in lo..(hi - 1)} = {m0[p] : p \in lo..(hi - 1)}
    /\ \A p \in lo..(hi - 1) : \A q \in (p + 1)..(hi - 1) :
          m0[p][1] = m0[q][1] => Place(m1, lo, hi, m0[p]) < Place(m1, lo, hi, m0[q])

\* block_merge is entered: merge_basic has failed
BlockMergeEntered ==
    pc = "merge" /\ path = "internal" /\ stage \in {"scrolling", "in_place"}

\* one step of block_merge on the pair (a, b)
BlockMergeStep ==
    LET scroll == PairN < (K.tags_len + 1) * K.buffer_len IN
    BlockMergeEntered =>
        /\ K.buffer_len < Min(PairN, PairM)
        /\ Sorted(mem, PairA, PairB) /\ Sorted(mem, PairB, PairB + PairM)
        /\ IF stage = "scrolling" /\ ~scroll
           THEN stage' = "in_place" /\ mem' = mem /\ pc' = pc
           ELSE /\ Last(attempts').res = "Done"
                /\ Last(attempts').strategy =
                       (IF scroll THEN "scrolling" ELSE "in_place")
                /\ StableMergeOf(mem, mem', PairA, PairB, PairB + PairM)

\* C14: block_merge on adjacent sorted runs a, b with
\* buffer_len < min(|a|, |b|) and K at rest takes the scrolling variant when
\* |a| < (tags_len + 1) * buffer_len and the in-place variant otherwise,
\* returns Done, and leaves a++b holding the stable merge of a and b.
C14_BlockMerge == [][BlockMergeStep]_vars

C14_Witness ==
    /\ path = "internal" /\ pc \in {"run", "merge", "restore"}
    /\ attempts # <<>>
    /\ Last(attempts).strategy \in {"scrolling", "in_place"}
    /\ Last(attempts).res = "Done"
    /\ \E p \in (base + mid)..(base + right - 2) :
          mem[p][1] = mem[p + 1][1] /\ mem[p][2] + 1 < mem[p + 1][2]

\* a step of the drop loop that calls drop_once
DropStep == pc = "drop" /\ pc' = "drop" /\ ms'.i = ms.i + 1

\* the elements of the internal buffer when block_merge was entered
BufferSet == {mem[p] : p \in K.tags_len..(K.len - 1)}

\* the buffer of ms1 (the hole) holds the elements of the internal buffer
HoleAt(ms1) == {ms1.mem[p] : p \in ms1.buf..(ms1.buf + Ctx.epb - 1)} = BufferSet

\* from sw to ms' the hole went right by count, past the elements next to it
Scrolled(sw, count) ==
    /\ ms'.buf = sw.buf + count
    /\ \A j \in 0..(count - 1) : ms'.mem[sw.buf + j] = sw.mem[sw.buf + Ctx.epb + j]
    /\ HoleAt(ms')
    /\ ms'.excess = Ctx.epb
    /\ ms'.pid = sw.pid

\* from sw to ms' the excess elements and the dropped block were merged
\* forward into the hole until one of the two was used up; what is left of
\* the other stands right of the hole
MergedForward(sw) ==
    /\ ms'.buf >= sw.buf
    /\ ms'.buf + ms'.excess = sw.buf + sw.excess + Ctx.epb
    /\ Sorted(ms'.mem, sw.buf, ms'.buf)
    /\ {ms'.mem[p] : p \in sw.buf..(sw.buf + sw.excess + 2 * Ctx.epb - 1)}
          = {sw.mem[p] : p \in sw.buf..(sw.buf + sw.excess + 2 * Ctx.epb - 1)}
    /\ LET rest == IF ms'.pid = sw.pid THEN sw.buf + Ctx.epb + sw.excess
                    ELSE sw.buf + sw.excess + 2 * Ctx.epb
       IN \A j \in 0..(ms'.excess - 1) :
              ms'.mem[ms'.buf + Ctx.epb + j] = sw.mem[rest - ms'.excess + j]
    /\ HoleAt(ms')
    /\ ms'.excess > 0

\* C15 as claimed: every drop of the type of pid scrolls the buffer right by
\* the current excess
ScrollDropClaimed ==
    (DropStep /\ stage = "scrolling") =>
        \E sw \in {drop_swap(ms, Ctx, drop_choice(ms, Ctx))} :
            IF sw.id = ms.pid
            THEN Scrolled(sw, ms.excess)
            ELSE MergedForward(sw)

C15_ScrollOnDropClaimed == [][ScrollDropClaimed]_vars

ScrollDrop ==
    (DropStep /\ stage = "scrolling") =>
        \E sw \in {drop_swap(ms, Ctx, drop_choice(ms, Ctx))} :
            IF sw.id = ms.pid
            THEN IF ms.pid = BlockB \/ sw.cnt_b # 0
                 THEN Scrolled(sw, ms.excess)
                 ELSE Scrolled(sw, 0) /\ ms'.mem = sw.mem
            ELSE MergedForward(sw)

\* C15: in the scrolling block merge, a drop of the type of pid scrolls the
\* buffer right by the current excess, so that the excess elements stand
\* immediately left of the buffer, when pid is B or a B-block is left after
\* the drop, and leaves the buffer where it is when pid is A and no B-block
\* is left; either way excess becomes epb and pid stays. A drop of the other
\* type merges the excess elements and the dropped block forward instead.
C15_ScrollOnDrop == [][ScrollDrop]_vars

C15_Witness ==
    /\ pc = "drop" /\ stage = "scrolling"
    /\ ms.pid = BlockA /\ ms.id = BlockA /\ ms.cnt_b = 0 /\ ms.cnt_a > 0
    /\ ms.buf + Ctx.epb + ms.excess < Ctx.s + ms.i * Ctx.epb

\* the tags as they stand when the A-blocks are tagged: tag j goes to the
\* j-th A-block
OrigTag(j) ==
    IF stage = "scrolling" THEN mem[j] ELSE sort_first(mem, K, Ctx.na)[j]

\* the elements of the j-th tagged A-block and of the j-th B-block when
\* block_merge was entered
OrigA(j, t) == mem[Ctx.s + j * Ctx.epb + t]
OrigB(j, t) == mem[PairB + j * Ctx.epb + t]

\* the second slot of the block at index j
TagOf(j) == ms.mem[Ctx.s + j * Ctx.epb + 1]

\* the indices of the undropped blocks that carry a tag
Tagged ==
    {j \in ms.i..(RangeEnd - 1) : TagOf(j) \in {OrigTag(t) : t \in 0..(Ctx.na - 1)}}

\* drop_once is about to be called
DropCall == pc = "drop" /\ Selecting

Candidates ==
    (DropCall /\ ms.cnt_a > 0) =>
        /\ ms.i + ms.cnt_a + ms.cnt_b = RangeEnd
        /\ Tagged = ms.i..(ms.i + ms.cnt_a - 1)
        /\ ms.ai \in Tagged
        /\ \A j \in Tagged : ~less(TagOf(j), TagOf(ms.ai))
        /\ \A q \in 0..(ms.cnt_b - 1) : \A t \in 0..(Ctx.epb - 1) :
              ms.mem[Ctx.s + (ms.i + ms.cnt_a + q) * Ctx.epb + t]
                  = OrigB(Ctx.nb - ms.cnt_b + q, t)

\* the tags of the dropped A-blocks are back in their places
TagsReturned ==
    pc = "drop" => \A t \in 0..(Ctx.na - ms.cnt_a - 1) : ms.mem[t] = OrigTag(t)

\* a drop places the next A-block or the next B-block in the original order,
\* and the tag of an A-block goes back to the place it came from
DropInOrder ==
    DropStep =>
        \E sw \in {drop_swap(ms, Ctx, drop_choice(ms, Ctx))} :
            LET dst == Ctx.s + ms.i * Ctx.epb IN
            /\ ms'.id = sw.id
            /\ IF sw.id = BlockA
               THEN /\ sw.cnt_a = ms.cnt_a - 1 /\ sw.cnt_b = ms.cnt_b
                    /\ \A t \in 0..(Ctx.epb - 1) :
                          sw.mem[dst + t] = OrigA(Ctx.na - ms.cnt_a, t)
                    /\ sw.mem[Ctx.na - ms.cnt_a] = OrigTag(Ctx.na - ms.cnt_a)
               ELSE /\ sw.cnt_b = ms.cnt_b - 1 /\ sw.cnt_a = ms.cnt_a
                    /\ \A t \in 0..(Ctx.epb - 1) :
                          sw.mem[dst + t] = OrigB(Ctx.nb - ms.cnt_b, t)

DropInvariant == Candidates /\ TagsReturned

\* C16: in both block merges, whenever drop_once is called with cnt_a > 0,
\* ai is the index of an undropped A-block with the smallest tag of all
\* undropped A-blocks and the block at i + cnt_a is the leftmost undropped
\* B-block; so the A-blocks are dropped in their original order, the B-blocks
\* in theirs, and the k-th dropped A-block gives its tag back to tag place k.
C16_DropOrder == [](DropInvariant) /\ [][DropInOrder]_vars

C16_Witness ==
    /\ DropCall /\ ms.phase = 3
    /\ ms.ai # ms.i
    /\ 1 < ms.cnt_a /\ ms.cnt_a < Ctx.na
    /\ 0 < ms.cnt_b /\ ms.cnt_b < Ctx.nb

\* scrolling_block_merge has passed its guard, or in_place_block_merge is
\* entered
ScrollingEntered ==
    /\ pc = "merge" /\ path = "internal" /\ stage = "scrolling"
    /\ PairN < (K.tags_len + 1) * K.buffer_len

InPlaceEntered == pc = "merge" /\ path = "internal" /\ stage = "in_place"

\* the subtractions and the tag indices of the two entries stay in range
EntryInRange ==
    /\ ScrollingEntered =>
          /\ K.buffer_len < Min(PairN, PairM)
          /\ K.buffer_len >= 1
          /\ PairN \div K.buffer_len >= 1
          /\ (PairN \div K.buffer_len) - 1 <= K.tags_len
    /\ InPlaceEntered =>
          /\ K.buffer_len < Min(PairN, PairM)
          /\ K.len >= 1
          /\ (PairN + PairM) \div K.len + 1 >= 2
          /\ PairN \div ((PairN + PairM) \div K.len + 1) < K.len

\* the counters and indices of the drop loop stay in range
LoopInRange ==
    pc = "drop" =>
        /\ ms.cnt_a >= 0 /\ ms.cnt_b >= 0
        /\ ms.cnt_a <= Ctx.na /\ ms.i <= RangeEnd
        /\ Selecting => ms.cnt_a + ms.cnt_b > 0
        /\ (Selecting /\ drop_choice(ms, Ctx) = BlockA) =>
              /\ ms.cnt_a >= 1
              /\ Ctx.na - ms.cnt_a
                     < (IF stage = "scrolling" THEN K.tags_len ELSE K.len)
        /\ (~Selecting /\ ms.phase = 3) =>
              \/ ms.i = RangeEnd
              \/ ms.pid = BlockB /\ ms.cnt_a = 0
        /\ (~Selecting /\ ms.phase = 3 /\ stage = "scrolling") =>
              PairB + PairM - (IF ms.pid = BlockB THEN 0 ELSE PairM % Ctx.epb)
                  >= ms.buf + Ctx.epb

BlocksInRange == EntryInRange /\ LoopInRange

\* each drop takes one from exactly one of the two counters, and the count
\* handed to min_block in the second select_while is not negative
DropCounts ==
    DropStep =>
        /\ \/ ms'.cnt_a = ms.cnt_a - 1 /\ ms'.cnt_b = ms.cnt_b
           \/ ms'.cnt_a = ms.cnt_a /\ ms'.cnt_b = ms.cnt_b - 1
        /\ (ms.phase = 2 /\ ms'.id = BlockA) => ms'.cnt_a + ms.i + 1 >= Ctx.na

\* C17: in every block merge reachable from sort_full no subtraction goes
\* below zero and no tag outside the tags is touched: block merge is
\* entered with buffer_len < min(|a|, |b|); the scrolling variant has
\* |a| / epb >= 1 and na <= tags_len, the in-place variant na < |K| and
\* epb >= 2; drop_once is never called with cnt_a = 0 and cnt_b = 0, every
\* drop takes one from exactly one of cnt_a and cnt_b, and the loop ends with
\* i = range.end or with pid = B and cnt_a = 0.
C17_NoUnderflow == [](BlocksInRange) /\ [][DropCounts]_vars

C17_Witness ==
    /\ pc = "drop" /\ ~Selecting /\ ms.phase = 3
    /\ ms.pid = BlockB /\ ms.cnt_a = 0 /\ ms.i < RangeEnd
    /\ Ctx.na >= 2

====
